---- MODULE Spec2Model ----
(***************************************************************************)
(* State-machine model of the trading dashboard's live-state layer:        *)
(*   - the session guard (lib/auth.ts, the route proxy, the Dashboard and  *)
(*     Login pages),                                                       *)
(*   - the resource hooks (lib/hooks.ts and the self-polling components).  *)
(* Strings that the code takes apart are represented by their parts: a     *)
(* token by the list of its dot-separated segments, a path by its chunks.  *)
(***************************************************************************)
EXTENDS Integers, Sequences, FiniteSets, TLC

\* Horizon of the clock, in seconds; expiry stamps range over 0..MaxSec.
MaxSec == 3

\* The polling clock runs for so many seconds.
MaxClock == 5

\* So many requests for one key are followed in flight at once.
MaxInflight == 2

\* Equity curves have up to so many points.
MaxLen == 3

\* auth.ts:40 "exp is seconds since epoch; Date.now() is milliseconds"
MsPerSec == 1000

VARIABLES
    now,        \* Date.now(), milliseconds
    token,      \* localStorage['ats_token'] of the browser
    reg,        \* history: what the last setToken/removeToken left in the slot
    call,       \* the last call or request made and its result
    variant,    \* which Dashboard of app/page.tsx is built: "state" or "inline"
    view,       \* the mounted page: "none", "dashboard", "login", "signup", "notfound"
    stage,      \* of the mounted page: "ssr" (server HTML), "client", "effect"
    authed,     \* Dashboard's useState(false)
    shown,      \* what the page renders: "nothing", "loading", "content", "form"
    nav,        \* the navigation under way: where to, and who asked for it
    passed,     \* history: the Dashboard's latest isAuthenticated() check was true
    redirected, \* history: the Dashboard's guard has asked for the login view
    loginInflight, \* POST /api/auth/login awaits its response
    ats_auth,   \* the browser's cookie of that name, sent with every navigation
    subs,       \* the mounted hooks and polling components, by slot
    cache,      \* swr's cache: one entry per key, of the keys under study
    reqs,       \* history: per key, the latest request a mount or a timer issued
    last,       \* history: the response just handled and what the view saw around it
    sent,       \* history: the request just issued, or the revalidation just deduped
    mut,        \* the view's mutating request (close, save, run, compare)
    calc,       \* the latest call of an analytics function: input and result
    hist,       \* TradeHistoryPanel: its state and its requests in flight
    ctl         \* the busy markers of the buttons and their requests in flight

authVars == <<now, token, reg, call>>
pageVars ==
    <<variant, view, stage, authed, shown, nav, passed, redirected, loginInflight,
      ats_auth>>

panelVars == <<hist, ctl>>

cacheVars == <<subs, cache, reqs, last, sent, mut, panelVars>>

vars == <<now, token, reg, call,
          variant, view, stage, authed, shown, nav, passed, redirected,
          loginInflight, ats_auth, subs, cache, reqs, last, sent, mut, calc,
          hist, ctl>>

-----------------------------------------------------------------------------
(* JavaScript values *)

\* A number, or NaN (undefined * 1000).
Num(n) == [nan |-> FALSE, n |-> n]
NaN == [nan |-> TRUE, n |-> 0]
Times(a, c) == IF a.nan THEN NaN ELSE Num(a.n * c)
\* Every comparison with NaN is false.
Gt(a, b) == ~a.nan /\ ~b.nan /\ a.n > b.n
Lt(a, b) == ~a.nan /\ ~b.nan /\ a.n < b.n
Ge(a, b) == ~a.nan /\ ~b.nan /\ a.n >= b.n

\* A token segment: the text between two dots.
\*   empty    ""                      atob gives "", JSON.parse("") throws
\*   bad64    not base64              atob throws
\*   notjson  base64 of non-JSON      JSON.parse throws
\*   jnull    base64 of  null
\*   jzero    base64 of a falsy primitive (0, false, "")
\*   jprim    base64 of a truthy primitive (5, true, "a")
\*   jnoexp   base64 of an object with no exp field
\*   jexp     base64 of {"sub": .., "exp": exp}
\*   opaque   a header or signature segment (never decoded)
Seg(k) == [k |-> k, exp |-> 0]
ExpSeg(e) == [k |-> "jexp", exp |-> e]
MidKinds == {"empty", "bad64", "notjson", "jnull", "jzero", "jprim", "jnoexp"}
MidSegs == {Seg(k) : k \in MidKinds} \cup {ExpSeg(e) : e \in 0..MaxSec}
Opaque == Seg("opaque")

\* A stored item: missing (getItem gives null) or a string, kept as its segments.
Null == [present |-> FALSE, parts |-> << >>]
Str(parts) == [present |-> TRUE, parts |-> parts]
EmptyString == Str(<<Seg("empty")>>)
TokenStrings ==
    {EmptyString, Str(<<Opaque>>)}
        \cup {Str(<<Opaque, m>>) : m \in MidSegs}
        \cup {Str(<<Opaque, m, Opaque>>) : m \in MidSegs}
        \cup {Str(<<Opaque, m, Opaque, Opaque>>) : m \in MidSegs}
TokenValues == TokenStrings \cup {Null}

\* The instants the clock visits: around every whole second.
TimePoints == {s * MsPerSec + d : s \in 0..MaxSec, d \in {0, 1, MsPerSec - 1}}

\* A decoded JSON value, or the outcome "an exception was raised".
JsNull == [t |-> "null", exp |-> NaN]
JsFalsy == [t |-> "falsy", exp |-> NaN]
JsPrim == [t |-> "prim", exp |-> NaN]
JsObj(e) == [t |-> "obj", exp |-> e]
Thrown == [t |-> "throw", exp |-> NaN]

\* !x
Falsy(v) == v.t \in {"null", "falsy"}
\* !token for a string-or-null
NoString(s) == ~s.present \/ s = EmptyString

\* token.split('.')
split(s) == s.parts

\* JSON.parse(atob(seg)): the value, or Thrown
atob_ok(seg) == seg.k # "bad64"
JSON_parse_atob(seg) ==
    IF ~atob_ok(seg) THEN Thrown
    ELSE CASE seg.k = "jnull" -> JsNull
           [] seg.k = "jzero" -> JsFalsy
           [] seg.k = "jprim" -> JsPrim
           [] seg.k = "jnoexp" -> JsObj(NaN)
           [] seg.k = "jexp" -> JsObj(Num(seg.exp))
           [] OTHER -> Thrown

-----------------------------------------------------------------------------
(* lib/auth.ts *)

\* getToken(): null where there is no window (a server render).
getToken(win, store) == IF ~win THEN Null ELSE store

setToken(store, t) == t

RemoveKeeps(store) == store
removeToken(store) == Null

\* getTokenPayload() with the try/catch left out: a throw escapes.
PayloadNoCatch(win, store) ==
    LET t == getToken(win, store) IN
    IF NoString(t) THEN JsNull
    ELSE LET parts == split(t) IN
         IF Len(parts) # 3 THEN JsNull
         ELSE JSON_parse_atob(parts[2])

\* getTokenPayload(): the payload, or null; the catch turns a throw into null.
getTokenPayload(win, store) ==
    LET t == getToken(win, store) IN
    IF NoString(t) THEN JsNull
    ELSE LET parts == split(t) IN
         IF Len(parts) # 3 THEN JsNull
         ELSE LET payload == JSON_parse_atob(parts[2]) IN
              IF payload.t = "throw" THEN JsNull ELSE payload

\* The outcome of a boolean function: a value, or an escaped exception.
Returns(b) == [threw |-> FALSE, val |-> b]
Raises == [threw |-> TRUE, val |-> FALSE]

\* isAuthenticated() with >= for >.
AuthAtExpiry(win, store, t) ==
    LET payload == getTokenPayload(win, store) IN
    IF payload.t = "throw" THEN Raises
    ELSE IF Falsy(payload) THEN Returns(FALSE)
    ELSE Returns(Ge(Times(payload.exp, MsPerSec), Num(t)))

\* isAuthenticated() at Date.now() = t
isAuthenticated(win, store, t) ==
    LET payload == getTokenPayload(win, store) IN
    IF payload.t = "throw" THEN Raises
    ELSE IF Falsy(payload) THEN Returns(FALSE)
    ELSE Returns(Gt(Times(payload.exp, MsPerSec), Num(t)))

-----------------------------------------------------------------------------
(* The route proxy *)

\* A pathname as its chunks: "/login" is <<"/", "login">>, "/" is <<"/">>.
PUBLIC_PATHS == {<<"/", "login">>, <<"/", "signup">>}
Paths == {<<"/">>, <<"/", "login">>, <<"/", "signup">>,
          <<"/", "login", "x">>, <<"/", "trades">>}
startsWith(s, p) == Len(p) <= Len(s) /\ SubSeq(s, 1, Len(p)) = p

Next_ == [action |-> "next", to |-> << >>, deleteCookie |-> FALSE]
Redirect(to, del) == [action |-> "redirect", to |-> to, deleteCookie |-> del]
LoginPath == <<"/", "login">>

\* proxy() with the public short-circuit left out: every path needs the cookie.
ProxyChecksAll(pathname, cookie, t) ==
    IF NoString(cookie) THEN Redirect(LoginPath, FALSE) ELSE Next_

\* proxy(request): pathname, the ats_auth cookie (Null when not sent), Date.now()
proxy(pathname, cookie, t) ==
    IF \E p \in PUBLIC_PATHS : startsWith(pathname, p) THEN Next_
    ELSE IF NoString(cookie) THEN Redirect(LoginPath, FALSE)
    ELSE LET parts == split(cookie)
             payload == IF Len(parts) < 2 THEN Thrown
                        ELSE JSON_parse_atob(parts[2])
         IN  IF payload.t = "throw" THEN Redirect(LoginPath, FALSE)
             \* payload.exp on null raises a TypeError inside the try
             ELSE IF payload.t = "null" THEN Redirect(LoginPath, FALSE)
             ELSE IF Lt(Times(payload.exp, MsPerSec), Num(t))
                  THEN Redirect(LoginPath, TRUE)
                  ELSE Next_

-----------------------------------------------------------------------------
(* The session guard's API, called from anywhere *)

NoResult == Returns(FALSE)
Call(op, win, tok, val, res, path, resp) ==
    [op |-> op, win |-> win, tok |-> tok, val |-> val, res |-> res,
     path |-> path, resp |-> resp]
Idle == Call("idle", TRUE, Null, JsNull, NoResult, << >>, Next_)

NoNav == [to |-> << >>, by |-> "none"]
Nav(to, by) == [to |-> to, by |-> by]

\* The slots a hook or a polling component can be mounted in: two views.
SubIds == {1, 2}

\* The endpoints polled.
Keys ==
    {"/api/trades/open", "/api/status", "/api/account", "/api/performance",
     "/api/settings", "/api/backtest/runs", "/api/news"}

\* An empty slot. Of a mounted one: nextFire is when its timer or its mount
\* fetch is due (-1: no timer), own and loading the useState of a polling
\* hook, inflight its fetches awaiting a response; lastTick (when it last
\* asked, -1 for never) and failed (its latest response was an error) are
\* history.
NoSub ==
    [kind |-> "none", nextFire |-> 0, own |-> "undefined", loading |-> FALSE,
     inflight |-> 0, lastTick |-> -1, failed |-> FALSE]

\* swr's entry for a key nobody has fetched yet: useSWR returns data and error
\* undefined. started is when the key's latest request left, -1 for never;
\* inflight counts the key's requests awaiting a response, fresh says the
\* latest of them is among these; succeeded and lastOutcome are history.
NoEntry ==
    [data |-> "undefined", error |-> "undefined", started |-> -1,
     inflight |-> 0, fresh |-> FALSE,
     succeeded |-> FALSE, lastOutcome |-> "none"]

\* No request yet for a key: at and sub are the latest request a mount or a
\* timer issued.
NoReq == [at |-> -1, sub |-> 0]

NoFetch ==
    [sub |-> 0, kind |-> "none", outcome |-> "none", body |-> "undefined",
     applied |-> FALSE,
     before |-> [value |-> "undefined"], after |-> [value |-> "undefined"]]

NoSent ==
    [sub |-> 0, kind |-> "none", cause |-> "none", deduped |-> FALSE,
     prev |-> NoReq, lastTick |-> -1, afterFailure |-> FALSE,
     concurrent |-> 0, subscribers |-> 0]

NoMutation ==
    [op |-> "none", sub |-> 0, kind |-> "none", phase |-> "idle",
     detached |-> FALSE, requests |-> 0, outcome |-> "none",
     refreshed |-> FALSE, reported |-> "none", touched |-> FALSE]

NoCalc == [fn |-> "none", input |-> << >>, result |-> [t |-> "none"]]

\* The two queries of the trade-history panel: the short list (limit 10, or 5
\* when compact) and the whole list (limit 1000), both at offset 0.
Queries == {"short", "all"}

\* TradeHistoryPanel before it mounts: limit at its initial value, trades [],
\* loading true. want is the query its limit and offset stand for, from the
\* query whose response set trades ("none": still []), inflight the requests
\* awaiting a response by query; over and by are history: the latest
\* response that set trades, and the query whose trades it replaced.
NoHistory ==
    [mounted |-> FALSE, want |-> "short", viewAll |-> FALSE, from |-> "none",
     trades |-> "empty", loading |-> TRUE, inflight |-> [q \in Queries |-> 0],
     by |-> "none", over |-> "none"]

\* The ids of the trades the panel lists (OpenTrade.id: string | number), one
\* of each type; s is String(id).
TradeIds == {[t |-> "string", s |-> "1"], [t |-> "number", s |-> "2"]}

\* The requests a button sends, and how one can end.
Requests == {"closeAll", "run", "compare", "save", "login"}
ControlOutcomes == {"ok", "non2xx", "neterr"}

\* The handler that ended last, and how: history.
NoDone == [action |-> "none", outcome |-> "none"]

\* The useState of the busy markers at mount, nothing in flight: closes and
\* inflight count the requests awaiting their response, per trade and per
\* button; panel is the component under study.
NoControls ==
    [panel |-> "none", closing |-> "null", closingAll |-> FALSE,
     running |-> FALSE, comparing |-> FALSE, saving |-> FALSE,
     loading |-> FALSE,
     closes |-> [i \in {id.s : id \in TradeIds} |-> 0],
     inflight |-> [r \in Requests |-> 0],
     done |-> NoDone]

\* Nothing is mounted and nothing was ever fetched, for the keys ks; swr's
\* cache holds the keys cs.
CacheEmpty(ks, cs) ==
    /\ subs = [s \in SubIds |-> NoSub]
    /\ cache = [k \in cs |-> NoEntry]
    /\ reqs = [k \in ks |-> NoReq]
    /\ last = NoFetch
    /\ sent = NoSent
    /\ mut = NoMutation
    /\ hist = NoHistory
    /\ ctl = NoControls

CacheIdle == CacheEmpty(Keys, Keys)

\* No page is loaded yet; the browser holds the ats_auth cookie c.
PagesLoad(v, c) ==
    /\ variant = v
    /\ ats_auth = c
    /\ view = "none"
    /\ stage = "ssr"
    /\ authed = FALSE
    /\ shown = "nothing"
    /\ nav = NoNav
    /\ passed = FALSE
    /\ redirected = FALSE
    /\ loginInflight = FALSE

PagesIdle(v) == PagesLoad(v, Null)

InitAuth ==
    /\ CacheIdle
    /\ calc = NoCalc
    /\ now = 0
    /\ token \in TokenValues
    /\ reg = token
    /\ call = Idle
    /\ PagesIdle("state")

Tick ==
    /\ \E t \in TimePoints : t > now /\ now' = t
    /\ call' = Idle
    /\ UNCHANGED <<token, reg>>
    /\ UNCHANGED <<pageVars, cacheVars, calc>>

SetTokenCall ==
    \E t \in TokenStrings :
        /\ token' = setToken(token, t)
        /\ reg' = t
        /\ call' = Call("set", TRUE, t, JsNull, NoResult, << >>, Next_)
        /\ UNCHANGED <<cacheVars, calc, now, pageVars>>

RemoveTokenCall ==
    /\ token' = removeToken(token)
    /\ reg' = Null
    /\ call' = Call("remove", TRUE, token, JsNull, NoResult, << >>, Next_)
    /\ UNCHANGED <<cacheVars, calc, now, pageVars>>

GetTokenCall ==
    \E win \in BOOLEAN :
        /\ call' = Call("get", win, getToken(win, token), JsNull, NoResult,
                        << >>, Next_)
        /\ UNCHANGED <<cacheVars, calc, now, token, reg, pageVars>>

GetTokenPayloadCall ==
    \E win \in BOOLEAN :
        /\ call' = Call("payload", win, Null, getTokenPayload(win, token),
                        NoResult, << >>, Next_)
        /\ UNCHANGED <<cacheVars, calc, now, token, reg, pageVars>>

IsAuthenticatedCall ==
    \E win \in BOOLEAN :
        /\ call' = Call("isAuth", win, Null, JsNull,
                        isAuthenticated(win, token, now), << >>, Next_)
        /\ UNCHANGED <<cacheVars, calc, now, token, reg, pageVars>>

\* A request reaches the proxy with whatever ats_auth cookie the client sends.
ProxyCall ==
    \E pathname \in Paths, cookie \in TokenValues :
        /\ call' = Call("proxy", TRUE, cookie, JsNull, NoResult, pathname,
                        proxy(pathname, cookie, now))
        /\ UNCHANGED <<cacheVars, calc, now, token, reg, pageVars>>

NextAuth ==
    \/ Tick
    \/ SetTokenCall
    \/ RemoveTokenCall
    \/ GetTokenCall
    \/ GetTokenPayloadCall
    \/ IsAuthenticatedCall

\* lib/auth.ts called in any order while the clock runs.
SpecAuth == InitAuth /\ [][NextAuth]_vars

InitProxy ==
    /\ CacheIdle
    /\ calc = NoCalc
    /\ now = 0
    /\ token = Null
    /\ reg = Null
    /\ call = Idle
    /\ PagesIdle("state")

NextProxy ==
    \/ Tick
    \/ ProxyCall

\* The proxy serving requests for any path with any cookie while the clock runs.
SpecProxy == InitProxy /\ [][NextProxy]_vars

-----------------------------------------------------------------------------
(* Claims on lib/auth.ts and the proxy *)

IsPublic(pathname) == \E p \in PUBLIC_PATHS : startsWith(pathname, p)
ThreePart(s) == s.present /\ Len(s.parts) = 3
Decodable(seg) == seg.k \in {"jnull", "jzero", "jprim", "jnoexp", "jexp"}

\* C1: isAuthenticated() returns true exactly when a token is stored (in the
\* localStorage of the calling environment), it has three segments whose middle
\* one decodes to a payload with an exp, and exp * 1000 > now, strictly: false
\* at exp * 1000 = now, false one second after expiry, true one second before.
C1_IsAuthenticatedIff ==
    call.op = "isAuth" =>
        /\ call.res = Returns(/\ call.win
                              /\ ThreePart(token)
                              /\ token.parts[2].k = "jexp"
                              /\ token.parts[2].exp * MsPerSec > now)
        /\ ~token.present => call.res = Returns(FALSE)
        /\ \A e \in 0..MaxSec :
              (call.win /\ token = Str(<<Opaque, ExpSeg(e), Opaque>>)) =>
                  /\ e * MsPerSec = now => call.res = Returns(FALSE)
                  /\ e * MsPerSec = now - MsPerSec => call.res = Returns(FALSE)
                  /\ e * MsPerSec = now + MsPerSec => call.res = Returns(TRUE)

\* C1 witness: isAuthenticated() was called at the very instant of expiry.
C1_Witness ==
    /\ call.op = "isAuth" /\ call.win /\ now > 0
    /\ ThreePart(token) /\ token.parts[2].k = "jexp"
    /\ token.parts[2].exp * MsPerSec = now
    /\ call.res = Returns(FALSE)

\* C2: decoding never raises: for a stored token that does not have exactly
\* three segments, or whose middle segment is not decodable, getTokenPayload
\* returns null as a value and isAuthenticated returns false; no call throws.
C2_DecodeNeverThrows ==
    LET malformed == token.present /\
                     (Len(token.parts) # 3 \/ ~Decodable(token.parts[2]))
    IN  /\ call.op = "payload" => call.val.t # "throw"
        /\ call.op = "isAuth" => ~call.res.threw
        /\ (call.op = "payload" /\ malformed) => call.val = JsNull
        /\ (call.op = "isAuth" /\ malformed) => call.res = Returns(FALSE)

\* C2 witness: isAuthenticated() ran on a three-part token whose middle segment
\* is not base64.
C2_Witness ==
    /\ call.op = "isAuth" /\ call.win
    /\ ThreePart(token) /\ token.parts[2].k = "bad64"
    /\ call.res = Returns(FALSE)

\* C5 (as claimed): the proxy admits a request for a non-public path exactly
\* when isAuthenticated's predicate holds of the token it is given.
C5_ProxyAgreesWithIsAuthenticated ==
    (call.op = "proxy" /\ ~IsPublic(call.path)) =>
        ((call.resp.action = "next") <=> isAuthenticated(TRUE, call.tok, now).val)

\* C7: the slot is a register: getToken returns what the last setToken stored
\* unless a removeToken followed (then null, as in an environment with no
\* localStorage at all); setToken overwrites, removeToken leaves null whatever
\* was there, and reading changes nothing.
C7_TokenSlotIsRegister ==
    /\ token = reg
    /\ call.op = "get" => call.tok = (IF call.win THEN reg ELSE Null)
    /\ call.op = "set" => token = call.tok
    /\ call.op = "remove" => token = Null

\* C7 witness: removeToken was called with no token present.
C7_Witness == call.op = "remove" /\ call.tok = Null /\ token = Null

-----------------------------------------------------------------------------
(* app/page.tsx (Dashboard, Signup), app/login/page.tsx, and routing *)

\* The tokens the pages are exercised with.
GuardTokens ==
    {Null, EmptyString,
     Str(<<Opaque, ExpSeg(MaxSec)>>),
     Str(<<Opaque, Seg("bad64"), Opaque>>),
     Str(<<Opaque, Seg("jnoexp"), Opaque>>)}
        \cup {Str(<<Opaque, ExpSeg(e), Opaque>>) : e \in 0..MaxSec}

\* The page the app router mounts for a pathname.
PageOf(pathname) ==
    CASE pathname = <<"/">> -> "dashboard"
      [] pathname = <<"/", "login">> -> "login"
      [] pathname = <<"/", "signup">> -> "signup"
      [] OTHER -> "notfound"

\* Dashboard's render, "inline" build: if (!isAuthenticated()) return null
DashboardRenderInline(win, store, t) ==
    IF ~isAuthenticated(win, store, t).val THEN "nothing" ELSE "content"

\* Dashboard's render, "state" build: if (!authed) return <loading screen>
DashboardRenderState(a) == IF ~a THEN "loading" ELSE "content"

\* The first render of a page, on the server (win = FALSE) or in the browser.
FirstRender(page, win) ==
    CASE page = "dashboard" /\ variant = "inline" ->
             DashboardRenderInline(win, token, now)
      [] page = "dashboard" /\ variant = "state" -> DashboardRenderState(FALSE)
      [] page \in {"login", "signup"} -> "form"
      [] OTHER -> "nothing"

\* The inline build asks isAuthenticated() in its render.
RenderCheck(page, win) ==
    page = "dashboard" /\ variant = "inline" /\ isAuthenticated(win, token, now).val

InitGuard ==
    /\ CacheIdle
    /\ calc = NoCalc
    /\ now = 0
    /\ token \in GuardTokens
    /\ reg = token
    /\ call = Idle
    /\ \E v \in {"state", "inline"}, c \in GuardTokens : PagesLoad(v, c)

\* The user opens a path in the address bar: the current page unloads, and
\* with it whatever its scripts were waiting for.
UserGoto ==
    \E pathname \in Paths :
        /\ nav = NoNav
        /\ nav' = Nav(pathname, "user")
        /\ view' = "none"
        /\ stage' = "ssr"
        /\ authed' = FALSE
        /\ shown' = "nothing"
        /\ passed' = FALSE
        /\ redirected' = FALSE
        /\ loginInflight' = FALSE
        /\ call' = Idle
        /\ UNCHANGED <<cacheVars, calc, now, token, reg, variant, ats_auth>>

\* The pending navigation reaches the proxy with the ats_auth cookie the
\* browser holds; the proxy lets it through to the page, or redirects it, and
\* response.cookies.delete('ats_auth') of its answer empties the cookie.
Route ==
    \E ssr \in BOOLEAN :
        LET resp == proxy(nav.to, ats_auth, now)
            page == PageOf(nav.to)
        IN  /\ nav # NoNav
            /\ ats_auth' = IF resp.deleteCookie THEN Null ELSE ats_auth
            /\ call' = Call("proxy", TRUE, ats_auth, JsNull, NoResult, nav.to, resp)
            /\ IF resp.action = "redirect"
               THEN /\ nav' = Nav(resp.to, "proxy")
                    /\ UNCHANGED <<view, stage, authed, shown, passed, redirected>>
               ELSE /\ nav' = NoNav
                    /\ redirected' = FALSE
                    /\ view' = page
                    /\ stage' = IF ssr THEN "ssr" ELSE "client"
                    /\ authed' = FALSE
                    /\ shown' = FirstRender(page, ~ssr)
                    /\ passed' = RenderCheck(page, ~ssr)
            /\ UNCHANGED <<cacheVars, calc, now, token, reg, variant, loginInflight>>

\* The server's HTML is hydrated: the page renders in the browser.
Hydrate ==
    /\ view # "none"
    /\ stage = "ssr"
    /\ stage' = "client"
    /\ shown' = FirstRender(view, TRUE)
    /\ passed' = RenderCheck(view, TRUE)
    /\ call' = Idle
    /\ UNCHANGED <<cacheVars, calc, now, token, reg, variant, ats_auth, view, authed, nav, redirected,
                   loginInflight>>

\* Dashboard's mount effect, "state" build:
\*   if (isAuthenticated()) setAuthed(true) else router.replace('/login')
DashboardEffectState ==
    /\ view = "dashboard" /\ variant = "state" /\ stage = "client"
    /\ stage' = "effect"
    /\ IF isAuthenticated(TRUE, token, now).val
       THEN /\ authed' = TRUE
            /\ passed' = TRUE
            /\ shown' = DashboardRenderState(TRUE)
            /\ UNCHANGED <<nav, redirected>>
       ELSE /\ nav' = Nav(LoginPath, "guard")
            /\ redirected' = TRUE
            /\ passed' = FALSE
            /\ UNCHANGED <<authed, shown>>
    /\ call' = Idle
    /\ UNCHANGED <<cacheVars, calc, now, token, reg, variant, ats_auth, view, loginInflight>>

\* Dashboard's mount effect, "inline" build:
\*   if (!isAuthenticated()) router.push('/login')
DashboardEffectInline ==
    /\ view = "dashboard" /\ variant = "inline" /\ stage = "client"
    /\ stage' = "effect"
    /\ IF ~isAuthenticated(TRUE, token, now).val
       THEN /\ nav' = Nav(LoginPath, "guard")
            /\ redirected' = TRUE
            /\ passed' = FALSE
       ELSE UNCHANGED <<nav, passed, redirected>>
    /\ call' = Idle
    /\ UNCHANGED <<cacheVars, calc, now, token, reg, variant, ats_auth, view, authed, shown, loginInflight>>

\* A click in the sidebar (setActiveView, setSidebarOpen) renders Dashboard again.
DashboardRerender ==
    /\ view = "dashboard" /\ stage # "ssr" /\ shown = "content"
    /\ IF variant = "inline"
       THEN /\ shown' = DashboardRenderInline(TRUE, token, now)
            /\ passed' = isAuthenticated(TRUE, token, now).val
       ELSE /\ shown' = DashboardRenderState(authed)
            /\ UNCHANGED passed
    /\ call' = Idle
    /\ UNCHANGED <<cacheVars, calc, now, token, reg, variant, ats_auth, view, stage, authed, nav,
                   redirected, loginInflight>>

\* lib/hooks.ts fetcher(url): a panel's hook asks the backend; no token is read.
fetcher(store, t) == Returns(TRUE)

\* A poll or a mount of a hook under the rendered dashboard issues a request.
PanelFetch ==
    /\ view = "dashboard" /\ stage # "ssr" /\ shown = "content"
    /\ call' = Call("fetch", TRUE, token, JsNull, fetcher(token, now), << >>, Next_)
    /\ UNCHANGED <<cacheVars, calc, now, token, reg, pageVars>>

\* LoginPage's mount effect: if (isAuthenticated()) router.push('/')
LoginEffect ==
    /\ view = "login" /\ stage = "client"
    /\ stage' = "effect"
    /\ IF isAuthenticated(TRUE, token, now).val
       THEN nav' = Nav(<<"/">>, "loginEffect")
       ELSE UNCHANGED nav
    /\ call' = Call("loginEffect", TRUE, token, JsNull, NoResult, << >>, Next_)
    /\ UNCHANGED <<cacheVars, calc, now, token, reg, variant, ats_auth, view, authed, shown, passed,
                   redirected, loginInflight>>

\* handleSubmit up to its await: the credentials are posted.
LoginSubmit ==
    /\ view = "login" /\ stage # "ssr" /\ ~loginInflight
    /\ loginInflight' = TRUE
    /\ call' = Idle
    /\ UNCHANGED <<cacheVars, calc, now, token, reg, variant, ats_auth, view, stage, authed, shown, nav,
                   passed, redirected>>

\* The tokens the backend issues: three parts, an expiry ahead of the clock.
Issued(t) ==
    {Str(<<Opaque, ExpSeg(e), Opaque>>) : e \in {x \in 0..MaxSec : x * MsPerSec > t}}

\* handleSubmit after its await, 2xx: setToken(data.access_token); router.push('/')
LoginOk ==
    \E t \in Issued(now) :
        /\ loginInflight
        /\ loginInflight' = FALSE
        /\ token' = setToken(token, t)
        /\ reg' = t
        /\ nav' = Nav(<<"/">>, "loginSubmit")
        /\ call' = Idle
        /\ UNCHANGED <<cacheVars, calc, now, variant, ats_auth, view, stage, authed, shown, passed,
                       redirected>>

\* handleSubmit after its await, non-2xx or a transport failure: setError(..)
LoginFailed ==
    /\ loginInflight
    /\ loginInflight' = FALSE
    /\ call' = Idle
    /\ UNCHANGED <<cacheVars, calc, now, token, reg, variant, ats_auth, view, stage, authed, shown, nav,
                   passed, redirected>>

\* SignupPage's handleSubmit, 2xx: router.push('/login?created=1')
SignupOk ==
    /\ view = "signup" /\ stage # "ssr"
    /\ nav' = Nav(LoginPath, "signup")
    /\ call' = Idle
    /\ UNCHANGED <<cacheVars, calc, now, token, reg, variant, ats_auth, view, stage, authed, shown, passed,
                   redirected, loginInflight>>

NextGuard ==
    \/ Tick
    \/ UserGoto
    \/ Route
    \/ Hydrate
    \/ DashboardEffectState
    \/ DashboardEffectInline
    \/ DashboardRerender
    \/ PanelFetch
    \/ LoginEffect
    \/ LoginSubmit
    \/ LoginOk
    \/ LoginFailed
    \/ SignupOk

\* The pages, the proxy in front of them and the clock.
SpecGuard == InitGuard /\ [][NextGuard]_vars

-----------------------------------------------------------------------------
(* Claims on the pages *)

\* The stored token is usable at t: well-formed and t < expiry.
Usable(store, t) ==
    /\ ThreePart(store)
    /\ store.parts[2].k = "jexp"
    /\ t < store.parts[2].exp * MsPerSec

\* The route admission state of the mounted Dashboard.
Admission ==
    IF redirected THEN "redirecting"
    ELSE IF passed THEN "authenticated"
    ELSE "unchecked"

\* C3 (as claimed): the Dashboard leaves unchecked for authenticated only on a
\* true isAuthenticated(), otherwise for redirecting with the navigation to
\* the login view issued; dashboard content is rendered only in authenticated.
C3_ContentOnlyWhenAuthenticated ==
    view = "dashboard" =>
        /\ shown = "content" => Admission = "authenticated"
        /\ stage = "effect" => Admission \in {"authenticated", "redirecting"}
        /\ authed => passed

\* C4 (as claimed): whenever the dashboard is shown as authenticated, and
\* whenever a resource fetch is issued, the stored token satisfies now < expiry.
C4_UsableOnlyBeforeExpiry ==
    /\ (view = "dashboard" /\ shown = "content") => Usable(token, now)
    /\ call.op = "fetch" => Usable(token, now)

\* C6 (as claimed): a public view is admitted with no token check: whatever the
\* token, the login or signup view is displayed and no redirect is issued.
C6_PublicViewNoCheckNoRedirect ==
    /\ (call.op = "proxy" /\ PageOf(call.path) \in {"login", "signup"}) =>
           call.resp.action = "next"
    /\ view \in {"login", "signup"} =>
           /\ shown = "form"
           /\ nav.by \notin {"loginEffect", "guard"}

\* C6 (amended): the proxy admits every path that starts with /login or
\* /signup whatever the cookie, and no other path without a cookie; the login
\* and signup views are always displayed; the signup view never redirects on
\* the token, and the login view redirects to the dashboard exactly when
\* isAuthenticated() is true at its mount effect.
C6_PublicAdmittedLoginSkipsWhenAuthed ==
    /\ (call.op = "proxy" /\ IsPublic(call.path)) => call.resp = Next_
    /\ (call.op = "proxy" /\ call.resp.action = "next" /\ ~IsPublic(call.path))
           => ~NoString(call.tok)
    /\ view \in {"login", "signup"} =>
           /\ shown = "form"
           /\ nav.by # "guard"
    /\ view = "signup" => nav.by # "loginEffect"
    /\ call.op = "loginEffect" =>
           /\ view = "login"
           /\ (nav = Nav(<<"/">>, "loginEffect")) <=> Usable(token, now)

\* C6 witness: the login view is displayed with a usable token stored, and its
\* mount effect has just asked for the dashboard.
C6_Witness ==
    /\ view = "login" /\ shown = "form"
    /\ call.op = "loginEffect"
    /\ Usable(token, now)
    /\ nav = Nav(<<"/">>, "loginEffect")


-----------------------------------------------------------------------------
(* lib/hooks.ts (useSWR hooks), the polling hook useOpenTrades              *)
(* (unnamed/part_004) and the polling StatusBar (unnamed/part_003)           *)

\* The hooks of lib/hooks.ts modelled, and the two that poll by themselves.
SwrKinds ==
    {"useAccount", "useOpenTrades", "usePerformance", "useNews", "useSettings",
     "useBacktestRuns"}
LegacyKinds == {"useOpenTradesLegacy", "StatusBarLegacy"}
Kinds == SwrKinds \cup LegacyKinds

\* The url each one fetches: for a useSWR hook, its key.
Key(kind) ==
    CASE kind \in {"useOpenTrades", "useOpenTradesLegacy"} -> "/api/trades/open"
      [] kind = "StatusBarLegacy" -> "/api/status"
      [] kind = "useAccount" -> "/api/account"
      [] kind = "usePerformance" -> "/api/performance"
      [] kind = "useNews" -> "/api/news"
      [] kind = "useSettings" -> "/api/settings"
      [] kind = "useBacktestRuns" -> "/api/backtest/runs"

\* refreshInterval of the useSWR call (0, swr's default, when the call gives
\* none: no polling), or the delay given to setInterval.
refreshInterval(kind) ==
    CASE kind = "useAccount" -> 5000
      [] kind = "useOpenTrades" -> 3000
      [] kind = "usePerformance" -> 30000
      [] kind = "useNews" -> 60000
      [] kind \in {"useSettings", "useBacktestRuns"} -> 0
      [] kind = "useOpenTradesLegacy" -> 5000
      [] kind = "StatusBarLegacy" -> 5000

\* The useSWR calls pass no dedupingInterval: swr's default of two seconds.
dedupingInterval == 2 * MsPerSec

\* What the backend can answer: a 2xx with a JSON body (null, or an object
\* whose trades are "a" or "b"), a 2xx whose body is not JSON, a non-2xx, or
\* no answer at all (fetch rejects).
Bodies == {"null", "a", "b"}
Outcomes ==
    {[t |-> "ok", body |-> b] : b \in Bodies}
        \cup {[t |-> x, body |-> "undefined"] : x \in {"badjson", "non2xx", "neterr"}}

Truthy(v) == v \notin {"undefined", "null"}

\* useState's initial value: useState([]) in the hook, useState(null) in StatusBar.
InitialOwn(kind) ==
    CASE kind = "useOpenTradesLegacy" -> "empty"
      [] kind = "StatusBarLegacy" -> "null"
      [] OTHER -> "undefined"

\* useState(true) for loading, in the hook only.
InitialLoading(kind) == kind = "useOpenTradesLegacy"

\* refresh of the polling hook: setTrades(data.trades || []) on response.ok;
\* a null body makes data.trades throw, which the catch logs, as it logs a
\* rejected fetch or json(); a non-2xx is skipped by the if. Nothing else is set.
LegacyRefresh(own, o) ==
    IF o.t = "ok" /\ o.body # "null" THEN o.body ELSE own

\* fetchStatus of StatusBar: setStatus(data) on response.ok, else nothing.
fetchStatus(own, o) == IF o.t = "ok" THEN o.body ELSE own

\* useSWR with fetcher: a resolved fetcher stores the body and clears the
\* error; a fetcher that throws (non-2xx: throw new Error; a rejected fetch or
\* json()) stores the error and keeps the data.
Revalidate(e, o) ==
    IF o.t = "ok"
    THEN [e EXCEPT !.data = o.body, !.error = "undefined",
                   !.succeeded = TRUE, !.lastOutcome = "ok"]
    ELSE [e EXCEPT !.error = "Error", !.lastOutcome = "fail"]

\* A revalidation on mount or by the refresh timer joins the key's request
\* when one is in flight or left less than dedupingInterval ago.
Deduped(e, t) ==
    e.inflight > 0 \/ (e.started >= 0 /\ t - e.started < dedupingInterval)

\* A mutant of NextTick: the interval doubles after a failed fetch.
NextTickBacksOff(kind, t, failed) ==
    t + (IF failed THEN 2 ELSE 1) * refreshInterval(kind)

\* setInterval(refresh, 5000): the next tick, whatever the last response was.
NextTick(kind, t, failed) == t + refreshInterval(kind)

\* useSWR's refresh timer: none without a refreshInterval.
SwrNextTick(kind, t) ==
    IF refreshInterval(kind) = 0 THEN -1 ELSE t + refreshInterval(kind)

\* data?.trades ?? []
TradesOf(data) == IF data \in {"a", "b"} THEN data ELSE "empty"

\* A mutant of isLive: the error is not looked at.
IsLiveDataOnly(error, data) == Truthy(data)

\* isLive: !error && !!data
isLive(error, data) == ~Truthy(error) /\ Truthy(data)

\* What the hook returns to the view (value: trades, account, performance),
\* or, for StatusBar, the state it renders from.
HookReturn(sub, c) ==
    LET e == c[Key(sub.kind)] IN
    CASE sub.kind = "useOpenTradesLegacy" ->
             [value |-> sub.own, loading |-> sub.loading]
      [] sub.kind = "StatusBarLegacy" -> [value |-> sub.own]
      [] sub.kind = "useOpenTrades" ->
             [value |-> TradesOf(e.data), isLive |-> isLive(e.error, e.data),
              error |-> e.error]
      [] sub.kind \in {"useBacktestRuns", "useNews"} ->
             [value |-> TradesOf(e.data), isLive |-> isLive(e.error, e.data),
              error |-> e.error]
      [] sub.kind \in {"useAccount", "usePerformance", "useSettings"} ->
             [value |-> e.data, isLive |-> isLive(e.error, e.data),
              error |-> e.error]
      [] OTHER -> [value |-> "undefined"]

\* The hooks mounted on a key, and the key's requests awaiting a response.
Subscribers(k, ss) == {s \in SubIds : ss[s].kind # "none" /\ Key(ss[s].kind) = k}
KeyInflight(k, ss, c) ==
    LET mine(s) == IF s \in Subscribers(k, ss) THEN ss[s].inflight ELSE 0
    IN  mine(1) + mine(2) + (IF k \in DOMAIN c THEN c[k].inflight ELSE 0)

\* The record of a response handled: whose it was, how it ended, whether it
\* was stored, and what the hook returned before and after.
Fetched(s, sub, o, applied, c1, sub2, c2) ==
    [sub |-> s, kind |-> sub.kind, outcome |-> o.t, body |-> o.body,
     applied |-> applied,
     before |-> HookReturn(sub, c1), after |-> HookReturn(sub2, c2)]

\* The record of a request issued by a mount or a timer ("auto") or by a
\* refresh, or of a revalidation deduped: the request that went before it for
\* the key, the asker's previous tick and whether its latest response was a
\* failure, the key's requests in flight and its subscribers at that moment.
Sent(s, sub, cause, deduped) ==
    [sub |-> s, kind |-> sub.kind, cause |-> cause, deduped |-> deduped,
     prev |-> reqs[Key(sub.kind)], lastTick |-> sub.lastTick,
     afterFailure |-> sub.failed,
     concurrent |-> KeyInflight(Key(sub.kind), subs, cache),
     subscribers |-> Cardinality(Subscribers(Key(sub.kind), subs))]

otherVars == <<token, reg, call, pageVars, calc, panelVars>>

\* The mutating requests a view sends: closeTrade and closeAll of
\* OpenTradesPanel, updateSettings of useSettings (SettingsPanel's handleSave),
\* triggerBacktest of useBacktestRuns and compareBacktest (BacktestPanel).
OpsOf(kind) ==
    CASE kind \in {"useOpenTrades", "useOpenTradesLegacy"} -> {"closeTrade", "closeAll"}
      [] kind = "useSettings" -> {"updateSettings"}
      [] kind = "useBacktestRuns" -> {"triggerBacktest", "compareBacktest"}
      [] OTHER -> {}

\* How a mutating request can end: 2xx with a readable body, 2xx whose body
\* cannot be read (json() rejects), a non-2xx, no answer (fetch rejects).
MutOutcomes == {"ok", "okbadjson", "non2xx", "neterr"}

Handled(refresh, reported) == [refresh |-> refresh, reported |-> reported]

\* A mutant of closeTrade: refresh() moved to the finally block.
CloseTradeRefreshesAlways(o) ==
    Handled(TRUE, IF o \in {"ok", "okbadjson"} THEN "success" ELSE "error")

\* closeTrade after its await: !response.ok throws into the catch, which shows
\* 'Close Failed'; else the success modal and refresh(). The body of a 2xx is
\* not read.
closeTrade(o) ==
    IF o \in {"ok", "okbadjson"}
    THEN Handled(TRUE, "success")
    ELSE Handled(FALSE, "error")

\* closeAll: the same, 'Close All Failed'.
closeAll(o) ==
    IF o \in {"ok", "okbadjson"}
    THEN Handled(TRUE, "success")
    ELSE Handled(FALSE, "error")

\* updateSettings: throw on !res.ok; mutate(); return res.json(). handleSave
\* shows 'Failed to save settings' when it throws.
updateSettings(o) ==
    CASE o = "ok" -> Handled(TRUE, "success")
      [] o = "okbadjson" -> Handled(TRUE, "error")
      [] OTHER -> Handled(FALSE, "error")

\* triggerBacktest: throw on !res.ok; result = await res.json(); mutate().
\* handleRun shows the error when it throws.
triggerBacktest(o) ==
    IF o = "ok" THEN Handled(TRUE, "success") ELSE Handled(FALSE, "error")

\* compareBacktest: throw on !res.ok; return res.json(). No cache is touched.
compareBacktest(o) ==
    IF o = "ok" THEN Handled(FALSE, "success") ELSE Handled(FALSE, "error")

Handler(op, o) ==
    CASE op = "closeTrade" -> closeTrade(o)
      [] op = "closeAll" -> closeAll(o)
      [] op = "updateSettings" -> updateSettings(o)
      [] op = "triggerBacktest" -> triggerBacktest(o)
      [] op = "compareBacktest" -> compareBacktest(o)

\* The record of a mutating request is kept while the request is under way
\* and for the step that ends it.
Pending(m) == IF m.phase = "inflight" THEN m ELSE NoMutation

\* Entries of different keys share nothing, so a run follows one key. A build
\* holds the useSWR hooks, with swr's cache, or the hook and the component
\* that poll by themselves, with none.
InitCache ==
    /\ \E k \in Keys, swr \in BOOLEAN :
          /\ \E kind \in Kinds : Key(kind) = k /\ (kind \in SwrKinds <=> swr)
          /\ CacheEmpty({k}, IF swr THEN {k} ELSE {})
    /\ calc = NoCalc
    /\ now = 0
    /\ token = Null
    /\ reg = Null
    /\ call = Idle
    /\ PagesIdle("state")

\* The slot of a view that is gone: nothing but the requests of the polling
\* code it left in flight, which fetch goes on with.
Gone(sub) ==
    IF sub.kind \in LegacyKinds THEN [NoSub EXCEPT !.inflight = sub.inflight] ELSE NoSub

\* A view using the hook, or StatusBar, mounts: state at its initial values,
\* and the mount effect (refresh(); setInterval(refresh, 5000)) or useSWR's
\* revalidation on mount is due at once.
Mount ==
    \E s \in SubIds, kind \in Kinds :
        /\ subs[s].kind = "none"
        /\ Key(kind) \in DOMAIN reqs
        /\ kind \in SwrKinds <=> Key(kind) \in DOMAIN cache
        /\ subs' = [subs EXCEPT ![s] =
                        [NoSub EXCEPT !.kind = kind, !.nextFire = now,
                                      !.own = InitialOwn(kind),
                                      !.loading = InitialLoading(kind)]]
        /\ last' = NoFetch
        /\ sent' = NoSent
        /\ mut' = Pending(mut)
        /\ UNCHANGED <<now, cache, reqs, otherVars>>

\* The effect's cleanup, clearInterval; swr keeps the key's entry. Responses
\* still under way find no state to set. A mutating request of the view goes
\* on: its handler runs when the response comes.
Unmount ==
    \E s \in SubIds :
        /\ subs[s].kind # "none"
        /\ subs' = [subs EXCEPT ![s] = Gone(subs[s])]
        /\ mut' = IF mut.sub = s /\ mut.phase = "inflight"
                  THEN [mut EXCEPT !.detached = TRUE]
                  ELSE Pending(mut)
        /\ last' = NoFetch
        /\ sent' = NoSent
        /\ UNCHANGED <<now, cache, reqs, otherVars>>

\* Whether the polling code's latest response left the state as it was
\* because it failed: the hook's catch or skipped if, StatusBar's skipped if.
LegacyFailed(kind, o) ==
    o.t # "ok" \/ (kind = "useOpenTradesLegacy" /\ o.body = "null")

\* The mount effect or a tick of setInterval calls refresh (fetchStatus in
\* StatusBar), which calls fetch whatever else is under way.
PollLegacy ==
    \E s \in SubIds :
        LET sub == subs[s]
            k == Key(sub.kind)
        IN  /\ sub.kind \in LegacyKinds
            /\ sub.nextFire = now
            /\ sub.inflight < MaxInflight
            /\ subs' = [subs EXCEPT ![s] =
                            [sub EXCEPT !.inflight = sub.inflight + 1,
                                        !.nextFire = NextTick(sub.kind, now, sub.failed),
                                        !.lastTick = now]]
            /\ reqs' = [reqs EXCEPT ![k].at = now, ![k].sub = s]
            /\ sent' = Sent(s, sub, "auto", FALSE)
            /\ last' = NoFetch
            /\ mut' = Pending(mut)
            /\ UNCHANGED <<now, cache, otherVars>>

\* A response to refresh or fetchStatus of a mounted view: the state is set
\* as LegacyRefresh and fetchStatus say; the hook's finally clears loading.
RespondLegacy ==
    \E s \in SubIds, o \in Outcomes :
        LET sub == subs[s]
            k == Key(sub.kind)
            own2 == IF sub.kind = "StatusBarLegacy"
                    THEN fetchStatus(sub.own, o)
                    ELSE LegacyRefresh(sub.own, o)
            sub2 == [sub EXCEPT !.own = own2, !.loading = FALSE,
                                !.inflight = sub.inflight - 1,
                                !.failed = LegacyFailed(sub.kind, o)]
        IN  /\ sub.kind \in LegacyKinds
            /\ sub.inflight > 0
            /\ subs' = [subs EXCEPT ![s] = sub2]
            /\ last' = Fetched(s, sub, o, TRUE, cache, sub2, cache)
            /\ sent' = NoSent
            /\ mut' = Pending(mut)
            /\ UNCHANGED <<now, cache, reqs, otherVars>>

\* useSWR revalidates on mount and on each refreshInterval: a request leaves
\* unless the revalidation is deduped.
PollSwr ==
    \E s \in SubIds :
        LET sub == subs[s]
            k == Key(sub.kind)
            dd == Deduped(cache[k], now)
        IN  /\ sub.kind \in SwrKinds
            /\ sub.nextFire = now
            /\ dd \/ cache[k].inflight < MaxInflight
            /\ subs' = [subs EXCEPT ![s] =
                            [sub EXCEPT !.nextFire = SwrNextTick(sub.kind, now),
                                        !.lastTick = now]]
            /\ cache' = IF dd THEN cache
                        ELSE [cache EXCEPT ![k].inflight = cache[k].inflight + 1,
                                           ![k].started = now,
                                           ![k].fresh = TRUE]
            /\ reqs' = IF dd THEN reqs
                       ELSE [reqs EXCEPT ![k].at = now, ![k].sub = s]
            /\ sent' = Sent(s, sub, "auto", dd)
            /\ last' = NoFetch
            /\ mut' = Pending(mut)
            /\ UNCHANGED <<now, otherVars>>

\* The hook of a key, for the record of a response swr handles.
KeyHook(k) == [NoSub EXCEPT !.kind = CHOOSE kind \in SwrKinds : Key(kind) = k]

\* A response reaches swr: the one to the key's latest request is stored as
\* Revalidate says, one to a request that a later request overtook is dropped.
RespondSwr ==
    \E k \in DOMAIN cache, o \in Outcomes, newest \in BOOLEAN :
        LET e == cache[k]
            left == [e EXCEPT !.inflight = e.inflight - 1]
            e2 == IF newest
                  THEN [Revalidate(left, o) EXCEPT !.fresh = FALSE]
                  ELSE left
            c2 == [cache EXCEPT ![k] = e2]
        IN  /\ e.inflight > 0
            /\ newest => e.fresh
            /\ ~newest => e.inflight > (IF e.fresh THEN 1 ELSE 0)
            /\ cache' = c2
            /\ last' = Fetched(0, KeyHook(k), o, newest, cache, KeyHook(k), c2)
            /\ sent' = NoSent
            /\ mut' = Pending(mut)
            /\ UNCHANGED <<now, subs, reqs, otherVars>>

\* The user presses a button of a mounted view (Close, Close All, Save, Run,
\* Compare; each is disabled while its request is under way). closeTrade
\* looks the trade up first: not found, it shows an error and sends nothing.
MutationStart ==
    \E s \in SubIds, found \in BOOLEAN :
        \E op \in OpsOf(subs[s].kind) :
            /\ mut.phase # "inflight"
            /\ found \/ op = "closeTrade"
            /\ mut' = IF found
                      THEN [NoMutation EXCEPT !.op = op, !.sub = s,
                                              !.kind = subs[s].kind,
                                              !.phase = "inflight",
                                              !.requests = 1]
                      ELSE [NoMutation EXCEPT !.op = op, !.sub = s,
                                              !.kind = subs[s].kind,
                                              !.phase = "done",
                                              !.outcome = "notfound",
                                              !.reported = "error"]
            /\ last' = NoFetch
            /\ sent' = NoSent
            /\ UNCHANGED <<now, subs, cache, reqs, otherVars>>

\* The mutating request ends and its handler runs, Handler(op, o). refresh of
\* the polling hook calls fetch, from an unmounted view too; mutate of a
\* useSWR hook starts a new request for the key through a mounted hook,
\* overtaking the ones under way, and starts none when no hook is mounted.
MutationDone ==
    \E o \in MutOutcomes :
        LET r == Handler(mut.op, o)
            k == Key(mut.kind)
            s == mut.sub
            legacy == mut.kind \in LegacyKinds
            asker == IF mut.detached \/ ~legacy
                     THEN [NoSub EXCEPT !.kind = mut.kind]
                     ELSE subs[s]
            issues == r.refresh /\ (legacy \/ Subscribers(k, subs) # {})
        IN  /\ mut.phase = "inflight"
            /\ issues /\ legacy /\ (~mut.detached \/ subs[s].kind = "none")
                  => subs[s].inflight < MaxInflight
            /\ issues /\ ~legacy => cache[k].inflight < MaxInflight
            /\ subs' = IF issues /\ legacy /\ (~mut.detached \/ subs[s].kind = "none")
                       THEN [subs EXCEPT ![s].inflight = subs[s].inflight + 1]
                       ELSE subs
            /\ cache' = IF issues /\ ~legacy
                        THEN [cache EXCEPT ![k].inflight = cache[k].inflight + 1,
                                           ![k].started = now,
                                           ![k].fresh = TRUE]
                        ELSE cache
            /\ sent' = IF issues THEN Sent(s, asker, "refresh", FALSE) ELSE NoSent
            /\ mut' = [mut EXCEPT !.phase = "done", !.outcome = o,
                                  !.refreshed = r.refresh,
                                  !.reported = r.reported,
                                  !.touched = (subs' # subs \/ cache' # cache)]
            /\ last' = NoFetch
            /\ UNCHANGED <<now, reqs, otherVars>>

\* A response to a request of the polling code whose view has unmounted:
\* fetch was not aborted, so refresh or fetchStatus runs on; its setState
\* calls reach a component that is gone and set nothing.
RespondOrphan ==
    \E s \in SubIds, k \in DOMAIN reqs, o \in Outcomes :
        LET gone == [NoSub EXCEPT !.kind = CHOOSE kind \in LegacyKinds : Key(kind) = k]
        IN  /\ subs[s].kind = "none"
            /\ subs[s].inflight > 0
            /\ subs' = [subs EXCEPT ![s].inflight = subs[s].inflight - 1]
            /\ last' = Fetched(0, gone, o, FALSE, cache, gone, cache)
            /\ sent' = NoSent
            /\ mut' = Pending(mut)
            /\ UNCHANGED <<now, cache, reqs, otherVars>>

\* A second passes once every timer due now has fired.
ClockTick ==
    /\ now < MaxClock * MsPerSec
    /\ \A s \in SubIds :
          subs[s].kind # "none" => (subs[s].nextFire > now \/ subs[s].nextFire = -1)
    /\ now' = now + MsPerSec
    /\ last' = NoFetch
    /\ sent' = NoSent
    /\ mut' = Pending(mut)
    /\ UNCHANGED <<subs, cache, reqs, otherVars>>

\* Polling as the clock runs, no button pressed.
NextCache ==
    \/ Mount
    \/ Unmount
    \/ PollLegacy
    \/ RespondLegacy
    \/ PollSwr
    \/ RespondSwr
    \/ RespondOrphan
    \/ ClockTick

SpecCache == InitCache /\ [][NextCache]_vars

\* The buttons pressed, and what mounts, polls and responses fall within the
\* same second.
NextMutate ==
    \/ Mount
    \/ Unmount
    \/ PollLegacy
    \/ RespondLegacy
    \/ PollSwr
    \/ RespondSwr
    \/ RespondOrphan
    \/ MutationStart
    \/ MutationDone

SpecMutate == InitCache /\ [][NextMutate]_vars

-----------------------------------------------------------------------------
(* Claims on the hooks *)

Mounted(s) == subs[s].kind # "none"

\* C8 (as claimed): a fetch that ends in a non-2xx response or a transport
\* failure leaves the value the hook gives the view exactly as it was before
\* the fetch, gives the view the error, and gives it a false isLive (isStale).
C8_FetchErrorKeepsValueMarksStale ==
    (last.kind # "none" /\ last.applied /\ last.outcome \in {"non2xx", "neterr"}) =>
        /\ last.after.value = last.before.value
        /\ "error" \in DOMAIN last.after /\ Truthy(last.after.error)
        /\ "isLive" \in DOMAIN last.after /\ ~last.after.isLive

\* C9: for every mounted hook of lib/hooks.ts, isStale (not isLive) is true
\* whenever the key's last fetch ended in an error or no fetch of the key has
\* ever succeeded.
C9_StaleWhenErrorOrNeverFetched ==
    \A s \in SubIds :
        (Mounted(s) /\ subs[s].kind \in SwrKinds) =>
            LET e == cache[Key(subs[s].kind)] IN
            (e.lastOutcome = "fail" \/ ~e.succeeded) =>
                ~HookReturn(subs[s], cache).isLive

\* C9 witness: a fetch of the key succeeded with a value, a later one failed,
\* and the mounted hook holds the value and reports it stale.
C9_Witness ==
    \E s \in SubIds :
        /\ Mounted(s) /\ subs[s].kind \in SwrKinds
        /\ cache[Key(subs[s].kind)].succeeded
        /\ cache[Key(subs[s].kind)].lastOutcome = "fail"
        /\ Truthy(cache[Key(subs[s].kind)].data)
        /\ ~HookReturn(subs[s], cache).isLive

\* C10 (as claimed): two subscriptions to one key share one entry and one
\* polling loop: they give their views the same value, and the requests their
\* mounts and timers issue for the key lie a polling interval apart or more.
C10_DedupByKey ==
    /\ \A s1, s2 \in SubIds :
          (Mounted(s1) /\ Mounted(s2) /\ Key(subs[s1].kind) = Key(subs[s2].kind)) =>
              HookReturn(subs[s1], cache).value = HookReturn(subs[s2], cache).value
    /\ (sent.kind # "none" /\ sent.cause = "auto" /\ ~sent.deduped
            /\ sent.prev.at >= 0 /\ sent.prev.sub # sent.sub) =>
          now - sent.prev.at >= refreshInterval(sent.kind)

\* C11 (as claimed): a refresh of a key called while a fetch of that key is
\* in flight attaches to that fetch instead of starting a second one: no
\* request leaves, and the key's requests in flight stay as many as they were.
C11_RefreshJoinsInflight ==
    (sent.cause = "refresh" /\ sent.concurrent > 0) =>
        /\ sent.deduped
        /\ KeyInflight(Key(sent.kind), subs, cache) = sent.concurrent

\* C12 (as claimed): once the last subscriber of a key has unsubscribed, the
\* key's timer is cleared and no request for the key leaves until somebody
\* subscribes again: every request for a key leaves while the key has a
\* subscriber.
C12_NoRequestWithoutSubscriber ==
    (sent.kind # "none" /\ ~sent.deduped) => sent.subscribers > 0

\* The subscription s was made and nothing has come of its first fetch yet.
JustSubscribed(s) == Mounted(s) /\ subs[s].lastTick = -1

\* The subscription s has fetched the key with success and waits for nothing.
Settled(s) ==
    /\ Mounted(s) /\ subs[s].lastTick >= 0
    /\ IF subs[s].kind \in LegacyKinds
       THEN subs[s].inflight = 0 /\ ~subs[s].failed /\ ~subs[s].loading
       ELSE cache[Key(subs[s].kind)].inflight = 0
                /\ cache[Key(subs[s].kind)].succeeded

\* C13 (as claimed): one polling loop per key. A subscription's first fetch is
\* due at once and the next one a polling interval after each, for as long as
\* it stays subscribed; and subscribing returns the key's last known value at
\* once: what a settled subscription of the key holds.
C13_PollingLoopPerKey ==
    /\ \A s \in SubIds :
          (Mounted(s) /\ refreshInterval(subs[s].kind) > 0) =>
              /\ now <= subs[s].nextFire
              /\ subs[s].nextFire <= now + refreshInterval(subs[s].kind)
              /\ subs[s].lastTick = -1 => subs[s].nextFire = now
    /\ (sent.cause = "auto" /\ sent.lastTick >= 0) =>
          now - sent.lastTick = refreshInterval(sent.kind)
    /\ \A s1, s2 \in SubIds :
          (JustSubscribed(s2) /\ Settled(s1)
                /\ Key(subs[s1].kind) = Key(subs[s2].kind)) =>
              HookReturn(subs[s2], cache).value = HookReturn(subs[s1], cache).value

\* C14 (as claimed): a mutating request that returned 2xx is followed by a
\* forced refresh of the resource it affects (closeTrade and closeAll: the
\* open trades; updateSettings: the settings; triggerBacktest: the backtest
\* runs), and the refresh is called only after a 2xx, by the handler itself.
C14_RefreshAfterSuccessfulMutation ==
    (mut.phase = "done" /\ mut.op \in {"closeTrade", "closeAll", "updateSettings", "triggerBacktest"}) =>
        (mut.refreshed <=> mut.outcome \in {"ok", "okbadjson"})

\* C15: a mutating request (closeTrade, closeAll, updateSettings,
\* triggerBacktest, compareBacktest) that ends in a non-2xx response or gets
\* no response is reported as an error, changes no hook state and no cache
\* entry, starts no refresh, and is not sent again: one request was sent.
C15_FailedMutationLeavesCache ==
    (mut.phase = "done" /\ mut.outcome \in {"non2xx", "neterr"}) =>
        /\ mut.reported = "error"
        /\ ~mut.refreshed
        /\ ~mut.touched
        /\ sent = NoSent
        /\ mut.requests = 1

\* C15 witness: closeTrade ended in a non-2xx response while the view's hook
\* held trades, and the error was reported.
C15_Witness ==
    /\ mut.phase = "done" /\ mut.op = "closeTrade" /\ mut.outcome = "non2xx"
    /\ mut.reported = "error"
    /\ ~mut.detached
    /\ HookReturn(subs[mut.sub], cache).value \in {"a", "b"}

\* C16: in the code that polls by itself (the useOpenTrades hook with
\* setInterval, StatusBar), a failed fetch neither stops nor slows polling:
\* a mounted view always has its next tick pending within one interval, the
\* tick after a failed fetch comes one interval after the tick before, and a
\* later 2xx with a value replaces what the view held.
C16_ErrorKeepsPolling ==
    /\ \A s \in SubIds :
          (Mounted(s) /\ subs[s].kind \in LegacyKinds) =>
              /\ now <= subs[s].nextFire
              /\ subs[s].nextFire <= now + refreshInterval(subs[s].kind)
    /\ (sent.cause = "auto" /\ sent.kind \in LegacyKinds /\ sent.afterFailure
            /\ sent.lastTick >= 0) =>
          now - sent.lastTick = refreshInterval(sent.kind)
    /\ (last.kind \in LegacyKinds /\ last.sub # 0 /\ last.outcome = "ok"
            /\ last.body \in {"a", "b"}) =>
          last.after.value = last.body

\* C16 witness: a tick fires after the view's latest fetch failed, one
\* interval after the tick before, and the next tick is pending.
C16_Witness ==
    /\ sent.cause = "auto" /\ sent.kind \in LegacyKinds
    /\ sent.afterFailure /\ sent.lastTick >= 0
    /\ now - sent.lastTick = refreshInterval(sent.kind)
    /\ subs[sent.sub].nextFire = now + refreshInterval(sent.kind)

-----------------------------------------------------------------------------
(* Analytics: calcDrawdown of the backtest and performance panels, and the
   comparison of two backtest runs *)

\* The equity values of the curves tried, and the curves: a curve may be
\* missing (undefined), else it is its points' equity in order.
Equities == {-50, 0, 50, 100, 120}
RECURSIVE SeqsUpTo(_)
SeqsUpTo(n) ==
    IF n = 0 THEN {<< >>}
    ELSE LET shorter == SeqsUpTo(n - 1) IN
         shorter \cup {Append(c, v) : c \in {x \in shorter : Len(x) = n - 1}, v \in Equities}
Curves ==
    {[given |-> FALSE, points |-> << >>]}
        \cup {[given |-> TRUE, points |-> c] : c \in SeqsUpTo(MaxLen)}

\* A percentage as the quotient the code computes, num / den.
Quotient(n, d) == [num |-> n, den |-> d]

\* peakAtMaxDd > 0 ? (maxDd / peakAtMaxDd) * 100 : 0
Pct(maxDd, peakAtMaxDd) ==
    IF peakAtMaxDd > 0 THEN Quotient(maxDd * 100, peakAtMaxDd) ELSE Quotient(0, 1)

\* The loop's variables before the first round: peak = curve[0].equity.
LoopStart(points) ==
    [peak |-> points[1], peakIdx |-> 0, maxDd |-> 0, troughIdx |-> 0,
     peakAtMaxDd |-> points[1]]

\* A mutant of DrawdownStep: the peak of the deepest fall is never recorded.
StepKeepsFirstPeak(st, points, i) ==
    LET v == points[i + 1]
        peak == IF v > st.peak THEN v ELSE st.peak
        peakIdx == IF v > st.peak THEN i ELSE st.peakIdx
        dd == peak - v
    IN  IF dd > st.maxDd
        THEN [peak |-> peak, peakIdx |-> peakIdx, maxDd |-> dd,
              troughIdx |-> i, peakAtMaxDd |-> st.peakAtMaxDd]
        ELSE [st EXCEPT !.peak = peak, !.peakIdx = peakIdx]

\* A mutant of DrawdownStep: dd >= maxDd in place of dd > maxDd.
StepTakesLaterTrough(st, points, i) ==
    LET v == points[i + 1]
        peak == IF v > st.peak THEN v ELSE st.peak
        peakIdx == IF v > st.peak THEN i ELSE st.peakIdx
        dd == peak - v
    IN  IF dd >= st.maxDd
        THEN [peak |-> peak, peakIdx |-> peakIdx, maxDd |-> dd,
              troughIdx |-> i, peakAtMaxDd |-> points[peakIdx + 1]]
        ELSE [st EXCEPT !.peak = peak, !.peakIdx = peakIdx]

\* One round of the loop, index i counted from 0 as in the code.
DrawdownStep(st, points, i) ==
    LET v == points[i + 1]
        peak == IF v > st.peak THEN v ELSE st.peak
        peakIdx == IF v > st.peak THEN i ELSE st.peakIdx
        dd == peak - v
    IN  IF dd > st.maxDd
        THEN [peak |-> peak, peakIdx |-> peakIdx, maxDd |-> dd,
              troughIdx |-> i, peakAtMaxDd |-> points[peakIdx + 1]]
        ELSE [st EXCEPT !.peak = peak, !.peakIdx = peakIdx]

\* for (let i = 0; i < curve.length; i++)
RECURSIVE DrawdownLoop(_, _, _)
DrawdownLoop(st, points, i) ==
    IF i >= Len(points) THEN st
    ELSE DrawdownLoop(DrawdownStep(st, points, i), points, i + 1)

\* calcDrawdown of BacktestPanel: null without a curve, else the result object.
calcDrawdown(curve) ==
    IF ~curve.given \/ Len(curve.points) = 0
    THEN [t |-> "null"]
    ELSE LET st == DrawdownLoop(LoopStart(curve.points), curve.points, 0) IN
         [t |-> "result", maxDrawdown |-> st.maxDd, peakIndex |-> st.peakIdx,
          troughIndex |-> st.troughIdx, peakValue |-> st.peakAtMaxDd,
          pct |-> Pct(st.maxDd, st.peakAtMaxDd)]

\* PerformancePanel's loop keeps no trough: its variables before the first round.
PerformanceLoopStart(points) ==
    [peak |-> points[1], maxDd |-> 0, peakIdx |-> 0, peakAtMaxDd |-> points[1]]

\* A mutant of PerformanceStep: the percentage is taken of the latest peak.
PerformanceStepOfLatestPeak(st, points, i) ==
    LET v == points[i + 1]
        peak == IF v > st.peak THEN v ELSE st.peak
        peakIdx == IF v > st.peak THEN i ELSE st.peakIdx
        dd == peak - v
    IN  [peak |-> peak, peakIdx |-> peakIdx,
         maxDd |-> IF dd > st.maxDd THEN dd ELSE st.maxDd,
         peakAtMaxDd |-> points[peakIdx + 1]]

\* One round of PerformancePanel's loop.
PerformanceStep(st, points, i) ==
    LET v == points[i + 1]
        peak == IF v > st.peak THEN v ELSE st.peak
        peakIdx == IF v > st.peak THEN i ELSE st.peakIdx
        dd == peak - v
    IN  IF dd > st.maxDd
        THEN [peak |-> peak, peakIdx |-> peakIdx, maxDd |-> dd,
              peakAtMaxDd |-> points[peakIdx + 1]]
        ELSE [st EXCEPT !.peak = peak, !.peakIdx = peakIdx]

RECURSIVE PerformanceLoop(_, _, _)
PerformanceLoop(st, points, i) ==
    IF i >= Len(points) THEN st
    ELSE PerformanceLoop(PerformanceStep(st, points, i), points, i + 1)

\* calcDrawdown of PerformancePanel: the percentage alone, 0 without a curve.
PerformanceCalcDrawdown(curve) ==
    IF ~curve.given \/ Len(curve.points) = 0
    THEN [t |-> "number", pct |-> Quotient(0, 1)]
    ELSE LET st == PerformanceLoop(PerformanceLoopStart(curve.points), curve.points, 0) IN
         [t |-> "number", pct |-> Pct(st.maxDd, st.peakAtMaxDd)]

\* The scalars of a backtest run that the comparison shows, and the runs tried.
RunScalars == {-2, 0, 3}
Runs ==
    [total_trades : {0, 3}, net_profit : RunScalars, max_drawdown : RunScalars]

\* A mutant of compareBacktests: the deltas taken baseline minus modified.
CompareBaselineMinusModified(A, B) ==
    [baseline |-> A, modified |-> B,
     diff |-> [total_trades_diff |-> A.total_trades - B.total_trades,
               net_profit_diff |-> A.net_profit - B.net_profit,
               max_drawdown_diff |-> A.max_drawdown - B.max_drawdown]]

\* The body POST /api/backtest/compare answers with, for the run under the
\* server's configuration (A) and the run under the overrides (B): the two
\* runs and their deltas, modified minus baseline.
compareBacktests(A, B) ==
    [baseline |-> A, modified |-> B,
     diff |-> [total_trades_diff |-> B.total_trades - A.total_trades,
               net_profit_diff |-> B.net_profit - A.net_profit,
               max_drawdown_diff |-> B.max_drawdown - A.max_drawdown]]

\* What compareBacktest of lib/hooks.ts gives handleCompare: the body as it
\* came on a 2xx, else the thrown 'Compare failed' (or json()'s rejection).
CompareReturn(o, body) ==
    IF o = "ok" THEN [t |-> "value", value |-> body] ELSE [t |-> "throw"]

InitAnalytics ==
    /\ CacheIdle
    /\ calc = NoCalc
    /\ now = 0
    /\ token = Null
    /\ reg = Null
    /\ call = Idle
    /\ PagesIdle("state")

\* BacktestPanel renders a result: calcDrawdown(result.equity_curve).
CalcBacktest ==
    \E c \in Curves :
        /\ calc' = [fn |-> "calcDrawdown", input |-> c, result |-> calcDrawdown(c)]
        /\ UNCHANGED <<now, token, reg, call, pageVars, cacheVars>>

\* PerformancePanel renders: calcDrawdown(performance.equity_curve).
CalcPerformance ==
    \E c \in Curves :
        /\ calc' = [fn |-> "PerformanceCalcDrawdown", input |-> c,
                    result |-> PerformanceCalcDrawdown(c)]
        /\ UNCHANGED <<now, token, reg, call, pageVars, cacheVars>>

\* handleCompare: compareBacktest(...) and the response to it.
Compare ==
    \E A \in Runs, B \in Runs, o \in MutOutcomes :
        /\ calc' = [fn |-> "compareBacktest",
                    input |-> [baseline |-> A, modified |-> B],
                    result |-> CompareReturn(o, compareBacktests(A, B))]
        /\ UNCHANGED <<now, token, reg, call, pageVars, cacheVars>>

NextAnalytics ==
    \/ CalcBacktest
    \/ CalcPerformance
    \/ Compare

SpecAnalytics == InitAnalytics /\ [][NextAnalytics]_vars

-----------------------------------------------------------------------------
(* Claims on the analytics *)

\* All the points of the curve.
Points == calc.input.points
AllNonNegative == \A i \in 1..Len(Points) : Points[i] >= 0

\* C17: for a non-empty curve with no negative equity, calcDrawdown gives
\* maxDrawdown >= 0 and maxDrawdown <= peakValue, and its pct (in both
\* panels) lies in [0, 100] and is maxDrawdown / peakValue * 100 when
\* peakValue > 0, else 0.
C17_DrawdownWithinPeak ==
    (calc.fn \in {"calcDrawdown", "PerformanceCalcDrawdown"}
        /\ calc.input.given /\ Len(Points) > 0 /\ AllNonNegative) =>
        LET r == calc.result IN
        /\ r.pct.den > 0
        /\ 0 <= r.pct.num /\ r.pct.num <= 100 * r.pct.den
        /\ calc.fn = "calcDrawdown" =>
              /\ r.t = "result"
              /\ 0 <= r.maxDrawdown /\ r.maxDrawdown <= r.peakValue
              /\ IF r.peakValue > 0
                 THEN r.pct.num * r.peakValue = r.maxDrawdown * 100 * r.pct.den
                 ELSE r.pct.num = 0

\* C17 witness: a curve that falls from a peak it climbed to, to zero: the
\* drawdown is the whole peak, 100 per cent.
C17_Witness ==
    /\ calc.fn = "calcDrawdown" /\ calc.input.given
    /\ Points = <<50, 120, 0>>
    /\ calc.result.maxDrawdown = 120 /\ calc.result.peakValue = 120
    /\ calc.result.pct.num = 100 * calc.result.pct.den

\* The greatest of a non-empty set of integers.
Greatest(S) == CHOOSE x \in S : \A y \in S : y <= x

\* The running maximum of the curve at index j, and the fall from it there
\* (indices counted from 0).
RunningMax(j) == Greatest({Points[i + 1] : i \in 0..j})
FallAt(j) == RunningMax(j) - Points[j + 1]
MaxFall ==
    LET n == Len(Points)
        pairs == {q \in (0..(n - 1)) \X (0..(n - 1)) : q[1] <= q[2]}
    IN  Greatest({Points[q[1] + 1] - Points[q[2] + 1] : q \in pairs})

\* C18: for a curve of two points or more, calcDrawdown of BacktestPanel
\* gives as maxDrawdown the greatest equity[i] - equity[j] over i <= j (0 for
\* a curve that never falls), as troughIndex the first index where the fall
\* from the running maximum reaches it, and as peakValue the running maximum
\* there; [100, 100] gives 0, and [100, 50, 120] gives maxDrawdown 50, pct 50,
\* trough 1, peak 100.
C18_MaxDrawdownIsGreatestFall ==
    (calc.fn = "calcDrawdown" /\ calc.input.given /\ Len(Points) >= 2) =>
        LET r == calc.result IN
        /\ r.t = "result"
        /\ r.maxDrawdown = MaxFall
        /\ FallAt(r.troughIndex) = MaxFall
        /\ \A j \in 0..(r.troughIndex - 1) : FallAt(j) < MaxFall
        /\ r.peakValue = RunningMax(r.troughIndex)
        /\ Points = <<100, 100>> => r.maxDrawdown = 0
        /\ Points = <<100, 50, 120>> =>
              /\ r.maxDrawdown = 50 /\ r.pct.num = 50 * r.pct.den
              /\ r.troughIndex = 1 /\ r.peakValue = 100

\* C18 witness: the curve [100, 50, 120], with 50 lost from the peak of 100
\* at index 1, the later rise to 120 notwithstanding.
C18_Witness ==
    /\ calc.fn = "calcDrawdown" /\ calc.input.given
    /\ Points = <<100, 50, 120>>
    /\ calc.result.maxDrawdown = 50 /\ calc.result.troughIndex = 1
    /\ calc.result.peakValue = 100 /\ calc.result.peakIndex = 2

\* C19 (as claimed): for a missing or empty curve and for every curve of one
\* point, calcDrawdown returns null or a result whose maxDrawdown, peakValue
\* and pct are all zero.
C19_DegenerateCurveZeroed ==
    (calc.fn \in {"calcDrawdown", "PerformanceCalcDrawdown"}
        /\ (~calc.input.given \/ Len(Points) <= 1)) =>
        LET r == calc.result IN
        \/ r.t = "null"
        \/ r.t = "number" /\ r.pct.num = 0 /\ r.pct.den > 0
        \/ /\ r.t = "result"
           /\ r.maxDrawdown = 0 /\ r.peakValue = 0
           /\ r.pct.num = 0 /\ r.pct.den > 0

-----------------------------------------------------------------------------
(* Performance statistics: the aggregation of closed trades behind
   /api/performance and what PerformancePanel shows of it *)

\* The profit_loss of the closed trades tried, and the lists of them.
ProfitLosses == {-10, -5, 0, 10, 20}
RECURSIVE ListsUpTo(_)
ListsUpTo(n) ==
    IF n = 0 THEN {<< >>}
    ELSE LET shorter == ListsUpTo(n - 1) IN
         shorter \cup {Append(c, v) : c \in {x \in shorter : Len(x) = n - 1},
                                      v \in ProfitLosses}
TradeLists == ListsUpTo(MaxLen)

\* A mutant of aggregateStats' step: a trade that broke even counts as won.
TallyCountsBreakEven(acc, pl) ==
    [total_trades |-> acc.total_trades + 1,
     winning_trades |-> acc.winning_trades + (IF pl >= 0 THEN 1 ELSE 0),
     losing_trades |-> acc.losing_trades + (IF pl < 0 THEN 1 ELSE 0),
     net_profit |-> acc.net_profit + pl]

\* One closed trade added to the tally.
Tally(acc, pl) ==
    [total_trades |-> acc.total_trades + 1,
     winning_trades |-> acc.winning_trades + (IF pl > 0 THEN 1 ELSE 0),
     losing_trades |-> acc.losing_trades + (IF pl < 0 THEN 1 ELSE 0),
     net_profit |-> acc.net_profit + pl]

RECURSIVE TallyAll(_, _)
TallyAll(acc, trades) ==
    IF trades = << >> THEN acc
    ELSE TallyAll(Tally(acc, Head(trades)), Tail(trades))

\* The statistics of a list of closed trades; win_rate is winning / total *
\* 100 as a quotient, 0 without trades.
aggregateStats(trades) ==
    LET t == TallyAll([total_trades |-> 0, winning_trades |-> 0,
                       losing_trades |-> 0, net_profit |-> 0], trades)
    IN  [total_trades |-> t.total_trades,
         winning_trades |-> t.winning_trades,
         losing_trades |-> t.losing_trades,
         net_profit |-> t.net_profit,
         win_rate |-> IF t.total_trades = 0 THEN Quotient(0, 1)
                      ELSE Quotient(t.winning_trades * 100, t.total_trades)]

\* const performance = p || { total_trades: 0, win_rate: 0, ... }
PerformanceShown(given, p) ==
    IF given
    THEN [from |-> "server", stats |-> p]
    ELSE [from |-> "default",
          stats |-> [total_trades |-> 0, winning_trades |-> 0,
                     losing_trades |-> 0, net_profit |-> 0,
                     win_rate |-> Quotient(0, 1)]]

\* PerformancePanel renders what usePerformance gave it: the statistics of
\* the closed trades, or nothing yet.
Aggregate ==
    \E trades \in TradeLists, given \in BOOLEAN :
        /\ calc' = [fn |-> "aggregateStats", input |-> trades,
                    result |-> PerformanceShown(given, aggregateStats(trades))]
        /\ UNCHANGED <<now, token, reg, call, pageVars, cacheVars>>

NextStats == Aggregate

SpecStats == InitAnalytics /\ [][NextStats]_vars

\* How many of the trades satisfy a test on profit_loss, and their sum.
CountWhere(trades, Test(_)) == Cardinality({i \in 1..Len(trades) : Test(trades[i])})
RECURSIVE SumTo(_, _)
SumTo(trades, n) == IF n = 0 THEN 0 ELSE SumTo(trades, n - 1) + trades[n]

\* C21: for every list of closed trades the statistics are: total_trades the
\* length, winning_trades the trades with profit_loss > 0, losing_trades those
\* with profit_loss < 0, net_profit the sum, win_rate winning / total * 100,
\* and 0 with nothing divided for the empty list; profits 10, -5, 20 give 2
\* wins, 1 loss, net profit 25. Without statistics the panel shows zeros.
C21_AggregateStats ==
    (calc.fn = "aggregateStats") =>
        LET r == calc.result.stats
            trades == calc.input
            Won(pl) == pl > 0
            Lost(pl) == pl < 0
        IN  /\ r.win_rate.den > 0
            /\ calc.result.from = "default" => (r.total_trades = 0 /\ r.win_rate.num = 0)
            /\ calc.result.from = "server" =>
                  /\ r.total_trades = Len(trades)
                  /\ r.winning_trades = CountWhere(trades, Won)
                  /\ r.losing_trades = CountWhere(trades, Lost)
                  /\ r.net_profit = SumTo(trades, Len(trades))
                  /\ IF Len(trades) = 0
                     THEN r.win_rate.num = 0
                     ELSE r.win_rate.num * Len(trades) =
                              CountWhere(trades, Won) * 100 * r.win_rate.den
                  /\ trades = <<10, -5, 20>> =>
                        (r.winning_trades = 2 /\ r.losing_trades = 1 /\ r.net_profit = 25)

\* C21 witness: the trades 10, -5, 20 aggregated: 2 of 3 won, 25 earned.
C21_Witness ==
    /\ calc.fn = "aggregateStats" /\ calc.result.from = "server"
    /\ calc.input = <<10, -5, 20>>
    /\ calc.result.stats.winning_trades = 2
    /\ calc.result.stats.net_profit = 25
    /\ calc.result.stats.win_rate.num * 3 = 200 * calc.result.stats.win_rate.den

-----------------------------------------------------------------------------
(* Further claims on the hooks *)

\* C22 (as claimed): at most one request per key is in flight at any time: a
\* tick, or any other trigger, that comes while a fetch of the key is in
\* flight is skipped.
C22_OneInflightPerKey ==
    /\ \A k \in DOMAIN reqs : KeyInflight(k, subs, cache) <= 1
    /\ (sent.kind # "none" /\ sent.concurrent > 0) => sent.deduped

-----------------------------------------------------------------------------
(* The trade-history panel of OpenTradesPanel.tsx, which fetches by itself *)

\* How a request for the history can end: 2xx with trades or with none, a
\* non-2xx (fetchTrades throws), no response or an unreadable body.
HistoryOutcomes == {"some", "empty", "non2xx", "neterr"}

\* fetchTrades up to its await: setLoading(true) and the request for the
\* query leaves.
FetchTradesSent(h, q) ==
    [h EXCEPT !.loading = TRUE, !.inflight[q] = h.inflight[q] + 1,
              !.by = "none", !.over = "none"]

\* fetchTrades after its await: on a 2xx setTrades(data.trades || []); the
\* catch logs; finally setLoading(false).
FetchTradesDone(h, q, o) ==
    LET left == [h EXCEPT !.inflight[q] = h.inflight[q] - 1, !.loading = FALSE,
                          !.by = "none", !.over = "none"]
    IN  IF o \in {"some", "empty"}
        THEN [left EXCEPT !.trades = o, !.from = q, !.by = q, !.over = h.from]
        ELSE left

InitHistory ==
    /\ CacheIdle
    /\ calc = NoCalc
    /\ now = 0
    /\ token = Null
    /\ reg = Null
    /\ call = Idle
    /\ PagesIdle("state")

historyOthers == <<now, token, reg, call, pageVars, calc, subs, cache, reqs,
                   last, sent, mut, ctl>>

\* The panel mounts: useEffect(() => { fetchTrades() }, [limit, offset]).
HistoryMount ==
    /\ ~hist.mounted
    /\ hist' = FetchTradesSent([NoHistory EXCEPT !.mounted = TRUE], "short")
    /\ UNCHANGED historyOthers

\* VIEW ALL, shown with trades on screen: setViewAll(true); setLimit(1000);
\* setOffset(0); the effect runs again as limit changed.
handleViewAll ==
    /\ hist.mounted /\ hist.trades = "some" /\ ~hist.viewAll
    /\ hist.inflight["all"] < MaxInflight
    /\ hist' = FetchTradesSent([hist EXCEPT !.viewAll = TRUE, !.want = "all"], "all")
    /\ UNCHANGED historyOthers

\* VIEW LESS: setViewAll(false); setLimit(compact ? 5 : 10); setOffset(0).
handleViewLess ==
    /\ hist.mounted /\ hist.viewAll
    /\ hist.inflight["short"] < MaxInflight
    /\ hist' = FetchTradesSent([hist EXCEPT !.viewAll = FALSE, !.want = "short"], "short")
    /\ UNCHANGED historyOthers

\* A response to one of the panel's requests, in any order.
HistoryRespond ==
    \E q \in Queries, o \in HistoryOutcomes :
        /\ hist.mounted /\ hist.inflight[q] > 0
        /\ hist' = FetchTradesDone(hist, q, o)
        /\ UNCHANGED historyOthers

\* The panel unmounts; the responses still to come set nothing.
HistoryUnmount ==
    /\ hist.mounted
    /\ hist' = NoHistory
    /\ UNCHANGED historyOthers

NextHistory ==
    \/ HistoryMount
    \/ handleViewAll
    \/ handleViewLess
    \/ HistoryRespond
    \/ HistoryUnmount

SpecHistory == InitHistory /\ [][NextHistory]_vars

\* C23 (as claimed): a response updates only what is shown for the query
\* (limit, offset) it was requested for: in the trade-history panel a
\* response to a request for one query never replaces the trades shown for a
\* different query, the one the panel is at now.
C23_ResponseSetsOwnQueryOnly ==
    ~(hist.by # "none" /\ hist.by # hist.want /\ hist.over = hist.want)

\* C24 (as claimed): unmounting a view while its fetch is in flight does not
\* cancel the fetch; the response, when it comes with no subscriber left on
\* the key, is stored in the key's cache entry, sets no state of the view
\* that is gone, and leaves no timer pending.
C24_OrphanResponseUpdatesCache ==
    LET k == Key(last.kind) IN
    (last.kind # "none" /\ Subscribers(k, subs) = {}) =>
        /\ \A s \in SubIds : subs[s].own = "undefined" /\ subs[s].lastTick = -1
        /\ (last.outcome = "ok" /\ (last.applied \/ last.kind \in LegacyKinds)) =>
              (k \in DOMAIN cache /\ cache[k].data = last.body)

\* C25: polling intervals follow sensitivity. Once a hook of lib/hooks.ts has
\* asked for its key, its refresh timer is due strictly less than 5 seconds
\* later for open positions and for the account, between ten and a hundred
\* seconds later for news and performance, and there is no timer at all for
\* settings and backtest runs.
C25_IntervalsBySensitivity ==
    \A s \in SubIds :
        LET sub == subs[s]
            gap == sub.nextFire - sub.lastTick
        IN  (sub.kind \in SwrKinds /\ sub.lastTick # -1) =>
                /\ sub.kind \in {"useOpenTrades", "useAccount"} =>
                        (sub.nextFire # -1 /\ gap > 0 /\ gap < 5 * MsPerSec)
                /\ sub.kind \in {"useNews", "usePerformance"} =>
                        (sub.nextFire # -1 /\ gap >= 10 * MsPerSec
                                           /\ gap < 100 * MsPerSec)
                /\ sub.kind \in {"useSettings", "useBacktestRuns"} =>
                        sub.nextFire = -1

-----------------------------------------------------------------------------
(* Login, then the dashboard *)

\* The pages as the browser and the router run them: a pending navigation is
\* routed, a server-rendered page is hydrated and a mounted page runs its
\* mount effect, each of them sooner or later; the user and the clock are
\* free to act or not.
SpecLogin ==
    /\ InitGuard
    /\ [][NextGuard]_vars
    /\ WF_vars(Route)
    /\ WF_vars(Hydrate)
    /\ WF_vars(DashboardEffectState)
    /\ WF_vars(DashboardEffectInline)
    /\ WF_vars(LoginEffect)

\* handleSubmit has stored the token it was issued and asked for '/'.
LoggedIn == nav = Nav(<<"/">>, "loginSubmit")

\* The dashboard is mounted with its content and no navigation is pending.
OnDashboard == view = "dashboard" /\ shown = "content" /\ nav = NoNav

\* The user has opened another address, or the token stored has run out.
LeftOrExpired == nav.by = "user" \/ ~isAuthenticated(TRUE, token, now).val

\* C26: after a successful login (setToken has stored a token whose expiry is
\* ahead and '/' was asked for) the navigation ends on the dashboard's
\* content, admitted by the proxy and by the page's guard, and does not go
\* round between the login view and the dashboard; unless the user opens
\* another address or the token runs out first.
C26_LoginReachesDashboard == LoggedIn ~> (OnDashboard \/ LeftOrExpired)

-----------------------------------------------------------------------------
(* Further claims on the analytics *)

\* C27: for every curve with a positive maxDrawdown the result of
\* BacktestPanel's calcDrawdown is consistent: peakIndex <= troughIndex, the
\* equity at peakIndex is peakValue, and peakValue minus the equity at
\* troughIndex is maxDrawdown.
C27_DrawdownResultConsistent ==
    (calc.fn = "calcDrawdown" /\ calc.result.t = "result"
        /\ calc.result.maxDrawdown > 0) =>
        LET r == calc.result IN
        /\ r.peakIndex <= r.troughIndex
        /\ Points[r.peakIndex + 1] = r.peakValue
        /\ r.peakValue - Points[r.troughIndex + 1] = r.maxDrawdown

\* Two quotients are the same number.
SameQuotient(a, b) == a.num * b.den = b.num * a.den

\* C28: for every non-empty curve the percentage PerformancePanel's
\* calcDrawdown returns is the pct of BacktestPanel's calcDrawdown on the same
\* curve, each result is what the function gives for the curve again, and
\* the curve passed is the curve afterwards.
C28_PanelsAgreeOnPct ==
    (calc.fn \in {"calcDrawdown", "PerformanceCalcDrawdown"}
        /\ calc.input.given /\ Len(Points) > 0) =>
        /\ calc.input \in Curves
        /\ calc.fn = "calcDrawdown" =>
              /\ calc.result = calcDrawdown(calc.input)
              /\ SameQuotient(calc.result.pct, PerformanceCalcDrawdown(calc.input).pct)
        /\ calc.fn = "PerformanceCalcDrawdown" =>
              /\ calc.result = PerformanceCalcDrawdown(calc.input)
              /\ SameQuotient(calc.result.pct, calcDrawdown(calc.input).pct)

\* C28 witness: PerformancePanel has taken the percentage of a curve whose
\* deepest fall is from a peak that is not its first point: 50, 100, 0 gives
\* 100 of 100, a hundred percent.
C28_Witness ==
    /\ calc.fn = "PerformanceCalcDrawdown"
    /\ calc.input.given /\ Points = <<50, 100, 0>>
    /\ calc.result.pct = Quotient(10000, 100)

-----------------------------------------------------------------------------
(* The busy markers: OpenTradesPanel (closing, closingAll), BacktestPanel
   (running, comparing), SettingsPanel (saving), LoginPage (loading) *)

Panels == {"OpenTradesPanel", "BacktestPanel", "SettingsPanel", "LoginPage"}

\* String(tradeId)
String(id) == id.s

\* const isClosingThis = closing === trade.id: closing is a string or null,
\* and === is false between a string and a number.
isClosingThis(closing, id) == id.t = "string" /\ closing = id.s

\* A mutant of Finally: the marker is cleared on success only.
FinallyOnSuccessOnly(c, marker, idle, o) ==
    IF o = "ok" THEN [c EXCEPT ![marker] = idle] ELSE c

\* finally { setClosing(null) }, finally { setRunning(false) }, ...: the
\* marker is set back whatever the try block and the catch block did.
Finally(c, marker, idle, o) == [c EXCEPT ![marker] = idle]

\* closeTrade up to its await: setClosing(String(tradeId)); the trade is
\* looked up by String(t.id) in the trades listed, and without it the handler
\* shows 'Trade Not Found' and returns through finally.
PanelCloseTradeStart(c, id, listed) ==
    IF \E t \in listed : String(t) = String(id)
    THEN [c EXCEPT !.closing = String(id),
                   !.closes[String(id)] = c.closes[String(id)] + 1,
                   !.done = NoDone]
    ELSE [Finally(c, "closing", "null", "notfound")
              EXCEPT !.done = [action |-> "closeTrade", outcome |-> "notfound"]]

\* closeTrade after its await, on any response or none: modal, then finally.
PanelCloseTradeDone(c, id, o) ==
    [Finally(c, "closing", "null", o)
        EXCEPT !.closes[String(id)] = c.closes[String(id)] - 1,
               !.done = [action |-> "closeTrade", outcome |-> o]]

\* A handler of one button up to its await: the marker is set.
HandlerStart(c, marker, r) ==
    [c EXCEPT ![marker] = TRUE, !.inflight[r] = c.inflight[r] + 1, !.done = NoDone]

\* The handler after its await: try or catch, then finally.
HandlerDone(c, marker, r, o) ==
    [Finally(c, marker, FALSE, o)
        EXCEPT !.inflight[r] = c.inflight[r] - 1,
               !.done = [action |-> r, outcome |-> o]]

\* The marker of each button's request.
MarkerOf(r) ==
    CASE r = "closeAll" -> "closingAll"
      [] r = "run" -> "running"
      [] r = "compare" -> "comparing"
      [] r = "save" -> "saving"
      [] r = "login" -> "loading"

\* The component each button is in.
PanelOf(r) ==
    CASE r = "closeAll" -> "OpenTradesPanel"
      [] r \in {"run", "compare"} -> "BacktestPanel"
      [] r = "save" -> "SettingsPanel"
      [] r = "login" -> "LoginPage"

\* The components share no state, so a run follows one of them.
InitControls ==
    /\ subs = [s \in SubIds |-> NoSub]
    /\ cache = [k \in Keys |-> NoEntry]
    /\ reqs = [k \in Keys |-> NoReq]
    /\ last = NoFetch
    /\ sent = NoSent
    /\ mut = NoMutation
    /\ hist = NoHistory
    /\ \E p \in Panels : ctl = [NoControls EXCEPT !.panel = p]
    /\ calc = NoCalc
    /\ now = 0
    /\ token = Null
    /\ reg = Null
    /\ call = Idle
    /\ PagesIdle("state")

controlOthers == <<now, token, reg, call, pageVars, calc, subs, cache, reqs,
                   last, sent, mut, hist>>

\* A click on a trade's CLOSE button, which disabled={isClosingThis} allows.
ClickClose ==
    \E id \in TradeIds :
        /\ ctl.panel = "OpenTradesPanel"
        /\ ~isClosingThis(ctl.closing, id)
        /\ ctl.closes[String(id)] < MaxInflight
        /\ ctl' = PanelCloseTradeStart(ctl, id, TradeIds)
        /\ UNCHANGED controlOthers

\* POST /api/trades/close for the trade is answered, or fetch rejects.
CloseAnswered(id) ==
    \E o \in ControlOutcomes :
        /\ ctl.closes[String(id)] > 0
        /\ ctl' = PanelCloseTradeDone(ctl, id, o)
        /\ UNCHANGED controlOthers

CloseDone == \E id \in TradeIds : CloseAnswered(id)

\* A click on CLOSE ALL, RUN BACKTEST, the compare button, SAVE CHANGES or
\* the login form's submit button, each disabled while its marker is set.
ClickButton ==
    \E r \in Requests :
        /\ ctl.panel = PanelOf(r)
        /\ ~ctl[MarkerOf(r)]
        /\ ctl.inflight[r] < MaxInflight
        /\ ctl' = HandlerStart(ctl, MarkerOf(r), r)
        /\ UNCHANGED controlOthers

\* The button's request is answered, or fetch rejects.
ButtonAnswered(r) ==
    \E o \in ControlOutcomes :
        /\ ctl.inflight[r] > 0
        /\ ctl' = HandlerDone(ctl, MarkerOf(r), r, o)
        /\ UNCHANGED controlOthers

ButtonDone == \E r \in Requests : ButtonAnswered(r)

NextControls ==
    \/ ClickClose
    \/ CloseDone
    \/ ClickButton
    \/ ButtonDone

\* Every request sent is answered or fails sooner or later; the user clicks
\* or not.
SpecControls ==
    /\ InitControls
    /\ [][NextControls]_vars
    /\ \A id \in TradeIds : WF_vars(CloseAnswered(id))
    /\ \A r \in Requests : WF_vars(ButtonAnswered(r))

\* C29: while a close request for a trade is in flight its CLOSE button is
\* disabled, so at most one close request per trade is in flight, whether
\* the trade's id is a string or a number; and at most one close-all request
\* is in flight.
C29_OneCloseInFlight ==
    /\ \A id \in TradeIds :
          /\ ctl.closes[String(id)] <= 1
          /\ ctl.closes[String(id)] > 0 => isClosingThis(ctl.closing, id)
    /\ ctl.inflight["closeAll"] <= 1
    /\ ctl.inflight["closeAll"] > 0 => ctl.closingAll

\* C30: every busy marker that is set is cleared again, however its request
\* ends: closing goes back to null, and closingAll, running, comparing,
\* saving and loading go back to false.
C30_BusyMarkersClear ==
    /\ (ctl.closing # "null") ~> (ctl.closing = "null")
    /\ ctl.closingAll ~> ~ctl.closingAll
    /\ ctl.running ~> ~ctl.running
    /\ ctl.comparing ~> ~ctl.comparing
    /\ ctl.saving ~> ~ctl.saving
    /\ ctl.loading ~> ~ctl.loading

\* C30 witness: a close request has failed in transport and closing is null
\* again with nothing in flight.
C30_Witness ==
    /\ ctl.done = [action |-> "closeTrade", outcome |-> "neterr"]
    /\ ctl.closing = "null"
    /\ \A id \in TradeIds : ctl.closes[String(id)] = 0

====
